---- MODULE Spec2Model ----
(***************************************************************************)
(* Timeout-tree analysis (tt_analysis.py): the driver loop over scenario   *)
(* rows and analyze_tt with its two bisection stages and metric            *)
(* derivation.                                                             *)
(*                                                                         *)
(* Arithmetic.  The program computes in IEEE doubles; the model computes   *)
(* in exact rationals over arbitrary-size naturals (TLC integers are 32    *)
(* bits wide, so naturals are digit sequences).  The congestion fraction   *)
(* x, low_x and high_x are held as integer numerators over the fixed       *)
(* denominator XDen, which is fine enough for every midpoint of both       *)
(* stages to be exact.  Float rounding, overflow and underflow are not     *)
(* modelled.  The exponent Ex ranges over integers.                        *)
(***************************************************************************)
EXTENDS Integers, Sequences, FiniteSets, TLC

(* ---------------- naturals of arbitrary size ---------------------------- *)
\* little-endian digit sequences in base Base, no leading zero, zero is <<>>
Base == 100 * 100

RECURSIVE Big(_)
Big(n) == IF n = 0 THEN << >> ELSE <<n % Base>> \o Big(n \div Base)

RECURSIVE AddC(_, _, _)
AddC(a, b, c) ==
    IF a = << >> /\ b = << >>
    THEN (IF c = 0 THEN << >> ELSE <<c>>)
    ELSE LET da == IF a = << >> THEN 0 ELSE Head(a)
             db == IF b = << >> THEN 0 ELSE Head(b)
             s  == da + db + c
         IN  <<s % Base>> \o AddC(IF a = << >> THEN << >> ELSE Tail(a),
                                  IF b = << >> THEN << >> ELSE Tail(b),
                                  s \div Base)

BigAdd(a, b) == AddC(a, b, 0)

RECURSIVE MulDigit(_, _, _)
MulDigit(a, d, c) ==
    IF a = << >>
    THEN (IF c = 0 THEN << >> ELSE <<c>>)
    ELSE LET p == Head(a) * d + c
         IN  <<p % Base>> \o MulDigit(Tail(a), d, p \div Base)

RECURSIVE BigMul(_, _)
BigMul(a, b) ==
    IF a = << >> \/ b = << >>
    THEN << >>
    ELSE LET rest    == BigMul(a, Tail(b))
             shifted == IF rest = << >> THEN << >> ELSE <<0>> \o rest
         IN  IF Head(b) = 0 THEN shifted
             ELSE AddC(MulDigit(a, Head(b), 0), shifted, 0)

RECURSIVE CmpAt(_, _, _)
CmpAt(a, b, k) ==
    IF k = 0 THEN 0
    ELSE IF a[k] < b[k] THEN -1
    ELSE IF a[k] > b[k] THEN 1
    ELSE CmpAt(a, b, k - 1)

\* -1, 0 or 1 as a < b, a = b or a > b
BigCmp(a, b) ==
    IF Len(a) < Len(b) THEN -1
    ELSE IF Len(a) > Len(b) THEN 1
    ELSE CmpAt(a, b, Len(a))

(* ---------------- non-negative rationals -------------------------------- *)
R(n, d) == [n |-> Big(n), d |-> Big(d)]
RI(n) == R(n, 1)
RMul(p, q) == [n |-> BigMul(p.n, q.n), d |-> BigMul(p.d, q.d)]
RDiv(p, q) == [n |-> BigMul(p.n, q.d), d |-> BigMul(p.d, q.n)]
RAdd(p, q) == [n |-> BigAdd(BigMul(p.n, q.d), BigMul(q.n, p.d)),
               d |-> BigMul(p.d, q.d)]
RCmp(p, q) == BigCmp(BigMul(p.n, q.d), BigMul(q.n, p.d))
RLess(p, q) == RCmp(p, q) < 0
RLeq(p, q) == RCmp(p, q) <= 0
RZero(p) == p.n = << >>

RECURSIVE RPow(_, _)
RPow(p, k) == IF k = 0 THEN RI(1) ELSE RMul(p, RPow(p, k - 1))

\* smallest k in lo+1 .. hi with a <= k*b, given lo*b < a <= hi*b
RECURSIVE CeilSearch(_, _, _, _)
CeilSearch(a, b, lo, hi) ==
    IF hi - lo <= 1 THEN hi
    ELSE LET mid == (lo + hi) \div 2
         IN  IF BigCmp(a, BigMul(Big(mid), b)) <= 0
             THEN CeilSearch(a, b, lo, mid)
             ELSE CeilSearch(a, b, mid, hi)

\* int(math.ceil(p)) for a rational p below 2^30
RCeil(p) == IF RZero(p) THEN 0 ELSE CeilSearch(p.n, p.d, 0, 2^30)

(* ---------------- program constants (lines 54-57) ----------------------- *)
BLOCKSIZE == 4000000
BLOCKS_PER_YEAR == RMul(RI(144), R(36525, 100))
SATOSHIS_PER_BITCOIN == 100000000
\* number of binary search iterations of each stage.  The program uses 50;
\* the model runs the same loops with a smaller iteration count.
LOG_PRECISION == 4

\* largest number of scenario rows in a modelled input file
MaxRows == 2

\* x, low_x and high_x are numerators over XDen.  Stage 1 midpoints are
\* multiples of 2^-LOG_PRECISION and Stage 2 halves an interval whose upper
\* end is such a multiple LOG_PRECISION more times; one more bit lets the
\* properties look at points between two neighbouring Stage 2 midpoints.
XDen == 2^(2 * LOG_PRECISION + 1)
X(xn) == R(xn, XDen)

(* ---------------- inputs ------------------------------------------------ *)
\* A row of the input file after the int()/float() conversions of lines
\* 66-75.  Ac, Ro, AS, MS, Le, Va are integers; Fe, Pr, Co are fractions
\* <<numerator, denominator>>; Ex is an integer-valued float.
AcSet == {-1, 0, 2}
RoSet == {-1, 0}
ASSet == {-1, 0, 10, 20, 30}
MSSet == {20}
FeSet == {<<-1, 1>>, <<0, 1>>, <<1, 1>>, <<3, 1>>}
ExSet == {0, 1, 2}
PrSet == {<<-1, 2>>, <<0, 1>>, <<1, 2>>, <<1, 1>>, <<3, 2>>}
LeSet == {-1, 0, 1000000, 100000000}
VaSet == {-1, 0, 1, 100}
CoSet == {<<-1, 2>>, <<0, 1>>, <<1, 1>>, <<3, 2>>}

StaticSet == [Ac : AcSet, Ro : RoSet, AS : ASSet, MS : MSSet]
DynSet == [Fe : FeSet, Ex : ExSet, Pr : PrSet, Le : LeSet, Va : VaSet, Co : CoSet]

\* rows of the multi-row input files: two scenarios that complete, one that
\* fails an assertion and one with no leaves
DriverDynSet ==
    { [Fe |-> <<1, 1>>, Ex |-> 1, Pr |-> <<1, 2>>, Le |-> 1000000, Va |-> 100, Co |-> <<1, 1>>],
      [Fe |-> <<3, 1>>, Ex |-> 2, Pr |-> <<0, 1>>, Le |-> 1000000, Va |-> 1, Co |-> <<0, 1>>],
      [Fe |-> <<3, 1>>, Ex |-> 0, Pr |-> <<1, 1>>, Le |-> 1000000, Va |-> 1, Co |-> <<1, 1>>],
      [Fe |-> <<1, 1>>, Ex |-> 1, Pr |-> <<1, 1>>, Le |-> 0, Va |-> 1, Co |-> <<1, 1>>] }
DriverStaticSet == [Ac : {0, 2}, Ro : {0}, AS : {0, 10}, MS : {20}]

RECURSIVE SeqsOfLen(_, _)
SeqsOfLen(S, n) ==
    IF n = 0 THEN {<< >>}
    ELSE {Append(q, e) : q \in SeqsOfLen(S, n - 1), e \in S}

Frac(p) == R(p[1], p[2])

(* ---------------- feerate model (lines 59-63) --------------------------- *)
\* Fe a rational, Ex a natural, xn the numerator of x < 1
calc_feerate(Fe, Ex, xn) == RDiv(Fe, RPow(X(XDen - xn), Ex))
calc_feerate_derivative(Fe, Ex, xn) ==
    RDiv(RMul(Fe, RI(Ex)), RPow(X(XDen - xn), Ex + 1))

(* ---------------- analyze_tt: validation (lines 76-87) ------------------ *)
\* the assertions without "assert Ex > 0.0"
RangeAssertsNoExponent(s, d) ==
    /\ s.Ac >= 0
    /\ s.Ro >= 0
    /\ s.AS >= 0
    /\ s.MS >= s.AS
    /\ d.Fe[1] >= 0
    /\ 0 <= d.Pr[1] /\ d.Pr[1] <= d.Pr[2]
    /\ d.Le >= 0
    /\ d.Va >= 0
    /\ 0 <= d.Co[1] /\ d.Co[1] <= d.Co[2]

\* the assertions without "assert MS >= AS"
RangeAssertsNoSizeOrder(s, d) ==
    /\ s.Ac >= 0
    /\ s.Ro >= 0
    /\ s.AS >= 0
    /\ d.Fe[1] >= 0
    /\ d.Ex > 0
    /\ 0 <= d.Pr[1] /\ d.Pr[1] <= d.Pr[2]
    /\ d.Le >= 0
    /\ d.Va >= 0
    /\ 0 <= d.Co[1] /\ d.Co[1] <= d.Co[2]

\* the ten assertions of lines 76-85
RangeAsserts(s, d) ==
    /\ s.Ac >= 0
    /\ s.Ro >= 0
    /\ s.AS >= 0
    /\ s.MS >= s.AS
    /\ d.Fe[1] >= 0
    /\ d.Ex > 0
    /\ 0 <= d.Pr[1] /\ d.Pr[1] <= d.Pr[2]
    /\ d.Le >= 0
    /\ d.Va >= 0
    /\ 0 <= d.Co[1] /\ d.Co[1] <= d.Co[2]

\* line 86, for Le > 0
Cuf(d) == RDiv(RMul(RI(2), RMul(RI(d.Va), RI(SATOSHIS_PER_BITCOIN))),
               RMul(RI(3), RI(d.Le)))

\* line 87: assert cuf > MS*Fe
FundsAssert(s, d) == RLess(RMul(RI(s.MS), Frac(d.Fe)), Cuf(d))

(* ---------------- analyze_tt: the two searches (lines 88-106) ----------- *)
\* the midpoint without the halving
MidpointSum(lo, hi) == lo + hi

\* lines 91 and 100
Midpoint(lo, hi) == (lo + hi) \div 2

\* lines 92-93: max_fee > cuf at x
MaxFee(s, d, xn) == RMul(RI(s.MS), calc_feerate(Frac(d.Fe), d.Ex, xn))
\* the comparison with the average size AS in place of MS
FeeExceedsFundsAveSize(s, d, xn) ==
    RLess(Cuf(d), RMul(RI(s.AS), calc_feerate(Frac(d.Fe), d.Ex, xn)))

FeeExceedsFunds(s, d, xn) == RLess(Cuf(d), MaxFee(s, d, xn))

\* Va*SATOSHIS_PER_BITCOIN*Co*AS, the numerator of the capital term
CapitalNumerator(s, d) ==
    RMul(RMul(RI(d.Va), RI(SATOSHIS_PER_BITCOIN)), RMul(Frac(d.Co), RI(s.AS)))

\* line 101
ExpCost(s, d, xn) ==
    RAdd(RDiv(CapitalNumerator(s, d),
              RMul(RMul(BLOCKS_PER_YEAR, RI(BLOCKSIZE)), X(xn))),
         RMul(RMul(Frac(d.Pr), RI(s.AS)), calc_feerate(Frac(d.Fe), d.Ex, xn)))

\* lines 102-103: exp_cost_deriv > 0.0.  The derivative is the fee term
\* minus the capital term, so it is positive when the capital term is the
\* smaller one.
CapitalDeriv(s, d, xn) ==
    RDiv(CapitalNumerator(s, d),
         RMul(RMul(BLOCKS_PER_YEAR, RI(BLOCKSIZE)), RPow(X(xn), 2)))
FeeDeriv(s, d, xn) ==
    RMul(RMul(Frac(d.Pr), RI(s.AS)), calc_feerate_derivative(Frac(d.Fe), d.Ex, xn))
\* the comparison with the sign of the derivative flipped
ExpCostDerivSignFlipped(s, d, xn) == RLess(FeeDeriv(s, d, xn), CapitalDeriv(s, d, xn))

\* the comparison as exp_cost_deriv >= 0.0
ExpCostDerivNonNegative(s, d, xn) == RLeq(CapitalDeriv(s, d, xn), FeeDeriv(s, d, xn))

ExpCostDerivPositive(s, d, xn) == RLess(CapitalDeriv(s, d, xn), FeeDeriv(s, d, xn))

(* ---------------- analyze_tt: metric derivation (lines 107-117) --------- *)
\* line 111
SecurityDelayBlocks(s, d, xn) ==
    RCeil(RDiv(RMul(RI(d.Le), RI(s.AS)), RMul(RI(BLOCKSIZE), X(xn))))

\* line 113
CapitalCost(d, sdb) ==
    RDiv(RMul(RMul(RI(d.Va), RI(SATOSHIS_PER_BITCOIN)), RMul(Frac(d.Co), RI(sdb))),
         RMul(BLOCKS_PER_YEAR, RI(d.Le)))

\* the row of line 117
OutputRow(s, d, xn) ==
    LET max_fee      == MaxFee(s, d, xn)
        ave_fee      == RMul(RI(s.AS), calc_feerate(Frac(d.Fe), d.Ex, xn))
        expected_fee == RMul(Frac(d.Pr), ave_fee)
        sdb          == SecurityDelayBlocks(s, d, xn)
        capital_cost == CapitalCost(d, sdb)
    IN  [ params |-> d,
          x |-> xn,
          security_delay_blocks |-> sdb,
          security_delay_years |-> RDiv(RI(sdb), BLOCKS_PER_YEAR),
          capital_cost |-> capital_cost,
          capital_efficiency |->
              RDiv(RMul(R(2, 3), RI(s.Ac)), RI(s.Ac + s.Ro + sdb)),
          max_fee |-> max_fee,
          onchain_fee_fraction |-> RDiv(max_fee, Cuf(d)),
          expected_fee |-> expected_fee,
          expected_overhead_fraction |->
              RDiv(RAdd(capital_cost, expected_fee), Cuf(d)) ]

(* ---------------- state -------------------------------------------------- *)
VARIABLES
    static,      \* row 2 of the input file: Ac, Ro, AS, MS
    rows,        \* rows 4.. of the input file
    idx,         \* number of scenario rows read so far
    out,         \* the metric rows written to the output file
    pc,          \* where the program is
    err,         \* the exception that ended the program, if any
    i,           \* iterations done in the current stage
    low_x,
    high_x,
    x,
    x_feasible   \* history: the x that Stage 1 handed to Stage 2 (line 98)

vars == <<static, rows, idx, out, pc, err, i, low_x, high_x, x, x_feasible>>

NoError == [type |-> "none", line |-> 0]

Init ==
    /\ \/ static \in StaticSet /\ rows \in SeqsOfLen(DynSet, 1)
       \/ /\ static \in DriverStaticSet
          /\ rows \in UNION {SeqsOfLen(DriverDynSet, n) : n \in 0..MaxRows}
    /\ idx = 0
    /\ out = << >>
    /\ pc = "driver"
    /\ err = NoError
    /\ i = 0 /\ low_x = 0 /\ high_x = 0 /\ x = 0 /\ x_feasible = 0

Locals == <<i, low_x, high_x, x, x_feasible>>
Inputs == <<static, rows>>

\* line 148: the for loop takes the next row and calls analyze_tt
ReadRow ==
    /\ pc = "driver"
    /\ idx < Len(rows)
    /\ idx' = idx + 1
    /\ pc' = "validate"
    /\ UNCHANGED <<Inputs, out, err, Locals>>

\* lines 148, 150-153: the input is exhausted, the trailer is written
WriteTrailer ==
    /\ pc = "driver"
    /\ idx = Len(rows)
    /\ pc' = "finished"
    /\ UNCHANGED <<Inputs, idx, out, err, Locals>>

\* lines 76-89: the assertions, cuf, and the bounds of Stage 1
Validate ==
    /\ pc = "validate"
    /\ LET s == static
           d == rows[idx]
       IN  IF ~RangeAsserts(s, d)
           THEN /\ pc' = "aborted"
                /\ err' = [type |-> "AssertionError", line |-> 76]
                /\ UNCHANGED <<low_x, high_x>>
           ELSE IF d.Le = 0
           THEN /\ pc' = "aborted"
                /\ err' = [type |-> "ZeroDivisionError", line |-> 86]
                /\ UNCHANGED <<low_x, high_x>>
           ELSE IF ~FundsAssert(s, d)
           THEN /\ pc' = "aborted"
                /\ err' = [type |-> "AssertionError", line |-> 87]
                /\ UNCHANGED <<low_x, high_x>>
           ELSE /\ pc' = "stage1"
                /\ low_x' = 0
                /\ high_x' = XDen
                /\ UNCHANGED err
    /\ UNCHANGED <<Inputs, idx, out, i, x, x_feasible>>

\* lines 90-96: one iteration of the feasibility search
Stage1Iter ==
    /\ pc = "stage1"
    /\ i < LOG_PRECISION
    /\ LET m == Midpoint(low_x, high_x)
       IN  /\ x' = m
           /\ IF FeeExceedsFunds(static, rows[idx], m)
              THEN high_x' = m /\ UNCHANGED low_x
              ELSE low_x' = m /\ UNCHANGED high_x
    /\ i' = i + 1
    /\ UNCHANGED <<Inputs, idx, out, pc, err, x_feasible>>

\* lines 97-98: Stage 2 starts from [0, x]
Stage1Done ==
    /\ pc = "stage1"
    /\ i = LOG_PRECISION
    /\ low_x' = 0
    /\ high_x' = x
    /\ x_feasible' = x
    /\ i' = 0
    /\ pc' = "stage2"
    /\ UNCHANGED <<Inputs, idx, out, err, x>>

\* lines 99-106: one iteration of the cost minimization
Stage2Iter ==
    /\ pc = "stage2"
    /\ i < LOG_PRECISION
    /\ LET m == Midpoint(low_x, high_x)
       IN  /\ x' = m
           /\ IF ExpCostDerivPositive(static, rows[idx], m)
              THEN high_x' = m /\ UNCHANGED low_x
              ELSE low_x' = m /\ UNCHANGED high_x
    /\ i' = i + 1
    /\ UNCHANGED <<Inputs, idx, out, pc, err, x_feasible>>

\* lines 107-117: the metrics and the output row; analyze_tt returns
Derive ==
    /\ pc = "stage2"
    /\ i = LOG_PRECISION
    /\ LET s == static
           d == rows[idx]
       IN  IF s.Ac + s.Ro + SecurityDelayBlocks(s, d, x) = 0
           THEN /\ pc' = "aborted"
                /\ err' = [type |-> "ZeroDivisionError", line |-> 115]
                /\ UNCHANGED <<out, Locals>>
           ELSE /\ out' = Append(out, OutputRow(s, d, x))
                /\ pc' = "driver"
                /\ i' = 0 /\ low_x' = 0 /\ high_x' = 0 /\ x' = 0
                /\ x_feasible' = 0
                /\ UNCHANGED err
    /\ UNCHANGED <<Inputs, idx>>

Next ==
    \/ ReadRow
    \/ WriteTrailer
    \/ Validate
    \/ Stage1Iter
    \/ Stage1Done
    \/ Stage2Iter
    \/ Derive

Spec == Init /\ [][Next]_vars

(* ======================= properties ===================================== *)
\* the scenario being analysed, once a row has been read
Cur == rows[idx]

\* the declared parameter ranges of the data model
DeclaredRanges(s, d) ==
    /\ s.Ac >= 0 /\ s.Ro >= 0 /\ s.AS >= 0
    /\ s.MS >= s.AS
    /\ d.Fe[1] >= 0
    /\ d.Ex > 0
    /\ 0 <= d.Pr[1] /\ d.Pr[1] <= d.Pr[2]
    /\ d.Le >= 0
    /\ d.Va >= 0
    /\ 0 <= d.Co[1] /\ d.Co[1] <= d.Co[2]

\* the feasibility invariant cuf > MS*Fe, for ranges that hold and Le > 0
Feasible(s, d) ==
    BigCmp(BigMul(BigMul(Big(s.MS), Big(d.Fe[1])), BigMul(Big(3), Big(d.Le))),
           BigMul(BigMul(Big(2), BigMul(Big(d.Va), Big(SATOSHIS_PER_BITCOIN))),
                  Big(d.Fe[2]))) < 0

\* a range or the feasibility invariant is violated
Violates(s, d) ==
    \/ ~DeclaredRanges(s, d)
    \/ d.Le > 0 /\ ~Feasible(s, d)

\* the scenario satisfies every precondition (hence Le > 0)
Admissible(s, d) == DeclaredRanges(s, d) /\ d.Le > 0 /\ Feasible(s, d)

One == RI(1)
Pos(p) == ~RZero(p)

\* C1: a scenario that violates a declared range or the feasibility
\* invariant makes analyze_tt raise before any bisection iteration, and no
\* output row is written for it.
C1_ViolationRaisesBeforeSearch ==
    (idx >= 1 /\ Violates(static, Cur)) =>
        /\ pc \in {"validate", "aborted"}
        /\ pc = "aborted" => err.type = "AssertionError"
        /\ i = 0
        /\ Len(out) = idx - 1

C1_Witness ==
    /\ pc = "aborted"
    /\ err = [type |-> "AssertionError", line |-> 87]
    /\ Violates(static, Cur)

\* C2: a scenario with Le = 0 is handled explicitly: no division by zero
\* is attempted.
C2_LeafCountZeroHandled ==
    (idx >= 1 /\ Cur.Le = 0) => err.type # "ZeroDivisionError"

\* the points k * x_feasible / 2^(LOG_PRECISION+1) of (0, x_feasible]
CostGrid == {k * (x_feasible \div 2^(LOG_PRECISION + 1)) : k \in 1..2^(LOG_PRECISION + 1)}

\* C3 as claimed: the x of Stage 2 costs no more than any x of
\* (0, x_feasible] outside the final search interval.
C3_XOptBeatsOutside ==
    (pc = "stage2" /\ i = LOG_PRECISION) =>
        LET cost_x == ExpCost(static, Cur, x)
        IN  \A g \in CostGrid :
                (g < low_x \/ g > high_x) => RLeq(cost_x, ExpCost(static, Cur, g))

\* C3 amended: the final search interval brackets the minimum: x is one of
\* its ends, every x of (0, x_feasible] below low_x costs at least
\* cost(low_x) and every one above high_x costs at least cost(high_x).
C3_IntervalBracketsMinimum ==
    (pc = "stage2" /\ i = LOG_PRECISION) =>
        /\ x \in {low_x, high_x}
        /\ high_x - low_x = x_feasible \div 2^LOG_PRECISION
        /\ LET cost_low  == ExpCost(static, Cur, low_x)
               cost_high == ExpCost(static, Cur, high_x)
           IN  \A g \in CostGrid :
                   /\ g < low_x => RLeq(cost_low, ExpCost(static, Cur, g))
                   /\ g > high_x => RLeq(cost_high, ExpCost(static, Cur, g))

C3_Witness ==
    /\ pc = "stage2" /\ i = LOG_PRECISION
    /\ 0 < low_x /\ high_x < x_feasible
    /\ \E g \in CostGrid : g < low_x
    /\ Pos(Frac(Cur.Co)) /\ Pos(Frac(Cur.Pr))

RECURSIVE BigPow(_, _)
BigPow(a, k) == IF k = 0 THEN Big(1) ELSE BigMul(a, BigPow(a, k - 1))

\* the fee constraint MS * Fe / (1 - x)^Ex <= (2/3) * Va * 100000000 / Le at
\* x = g / XDen, cleared of denominators
FeeWithinFunds(s, d, g) ==
    BigCmp(BigMul(BigMul(BigMul(Big(s.MS), Big(d.Fe[1])), BigMul(Big(3), Big(d.Le))),
                  BigPow(Big(XDen), d.Ex)),
           BigMul(BigMul(BigMul(Big(2), Big(d.Va)),
                         BigMul(Big(SATOSHIS_PER_BITCOIN), Big(d.Fe[2]))),
                  BigPow(Big(XDen - g), d.Ex))) <= 0

\* the points of [0, 1) at a quarter of the Stage 1 resolution
FeasGrid == {k * 2^(LOG_PRECISION - 1) : k \in 0..(2^(LOG_PRECISION + 2) - 1)}
Stage1Step == 2^(LOG_PRECISION + 1)

\* C4: Stage 1 keeps a bracket of the feasibility boundary: after iteration
\* i, low_x satisfies the fee constraint, high_x violates it or is still 1,
\* low_x <= x <= high_x and high_x - low_x = 2^-i; the x handed to Stage 2
\* is within 2^-LOG_PRECISION of the largest feasible x of [0, 1).
C4_Stage1Bracket ==
    (pc = "stage1" /\ i >= 1) =>
        /\ FeeWithinFunds(static, Cur, low_x)
        /\ high_x = XDen \/ ~FeeWithinFunds(static, Cur, high_x)
        /\ low_x <= x /\ x <= high_x
        /\ (high_x - low_x) * 2^i = XDen
        /\ i = LOG_PRECISION =>
            /\ \A g \in FeasGrid :
                FeeWithinFunds(static, Cur, g) => g <= x + Stage1Step
            /\ \E g \in FeasGrid :
                FeeWithinFunds(static, Cur, g) /\ g >= x - Stage1Step

C4_Witness ==
    /\ pc = "stage1" /\ i = LOG_PRECISION
    /\ 0 < low_x /\ high_x < XDen
    /\ x = high_x

\* the fee term of the cost is not identically zero
FeeTermPositive(s, d) == d.Pr[1] > 0 /\ s.AS > 0 /\ d.Fe[1] > 0

\* C5 as claimed: with Co = 0 Stage 2 lowers its upper bound at every
\* iteration, whatever the other parameters, so x = x_feasible / 2^i; and
\* the capital cost per leaf written is 0.
C5_ZeroCapitalCostGoesDown ==
    /\ (pc = "stage2" /\ i >= 1 /\ Cur.Co[1] = 0) =>
           low_x = 0 /\ high_x = x /\ x * 2^i = x_feasible
    /\ \A j \in DOMAIN out :
           out[j].params.Co[1] = 0 => RZero(out[j].capital_cost)

\* C5 amended: with Co = 0 and a fee term Pr*AS*Fe > 0, Stage 2 lowers its
\* upper bound at every iteration and x = x_feasible / 2^i; with Co = 0 and
\* Pr*AS*Fe = 0 the derivative is 0, Stage 2 raises its lower bound at every
\* iteration and x = x_feasible * (1 - 2^-i).  The capital cost per leaf
\* written is 0 in both cases.
C5_ZeroCapitalCostFollowsFeeTerm ==
    /\ (pc = "stage2" /\ i >= 1 /\ Cur.Co[1] = 0) =>
           IF FeeTermPositive(static, Cur)
           THEN low_x = 0 /\ high_x = x /\ x * 2^i = x_feasible
           ELSE high_x = x_feasible /\ low_x = x
                /\ (x_feasible - x) * 2^i = x_feasible
    /\ \A j \in DOMAIN out :
           out[j].params.Co[1] = 0 => RZero(out[j].capital_cost)

C5_Witness ==
    /\ pc = "stage2" /\ i = LOG_PRECISION
    /\ Cur.Co[1] = 0
    /\ FeeTermPositive(static, Cur)
    /\ x * 2^LOG_PRECISION = x_feasible

\* C6 as claimed: every expectedOverheadFraction written is below 1.
C6_OverheadBelowOne ==
    \A j \in DOMAIN out : RLess(out[j].expected_overhead_fraction, One)

\* C6 amended: the feasibility bound limits only the fee part of the
\* overhead: expected_fee <= max_fee in every row written, and
\* expectedOverheadFraction is below 1 whenever max_fee + capital_cost is
\* below cuf.
C6_OverheadBoundedByMaxFeePlusCapital ==
    \A j \in DOMAIN out :
        /\ RLeq(out[j].expected_fee, out[j].max_fee)
        /\ RLess(RAdd(out[j].max_fee, out[j].capital_cost), Cuf(out[j].params))
               => RLess(out[j].expected_overhead_fraction, One)

C6_Witness ==
    \E j \in DOMAIN out :
        /\ Pos(out[j].expected_fee) /\ Pos(out[j].capital_cost)
        /\ RLess(RAdd(out[j].max_fee, out[j].capital_cost), Cuf(out[j].params))
        /\ RLess(out[j].expected_overhead_fraction, One)

\* C7: every midpoint of Stage 1 and Stage 2, and the x the metrics are
\* derived from, lies strictly between 0 and 1.
C7_XStrictlyInside ==
    /\ (pc \in {"stage1", "stage2"} /\ i >= 1) => (0 < x /\ x < XDen)
    /\ \A j \in DOMAIN out : 0 < out[j].x /\ out[j].x < XDen

C7_Witness ==
    /\ pc = "stage2" /\ i = LOG_PRECISION
    /\ x_feasible < XDen \div 2
    /\ x * 2^LOG_PRECISION = x_feasible

\* C8: an admissible scenario always runs to completion: analyze_tt does
\* not raise, and when it returns exactly one row was written for it.
C8_AdmissibleCompletes ==
    (idx >= 1 /\ Admissible(static, Cur)) =>
        /\ pc # "aborted"
        /\ pc = "driver" => Len(out) = idx

\* the number of leading rows that satisfy every precondition
RECURSIVE AdmissiblePrefix(_)
AdmissiblePrefix(k) ==
    IF k < Len(rows) /\ Admissible(static, rows[k + 1])
    THEN AdmissiblePrefix(k + 1)
    ELSE k

\* C9: rows are processed in input order; when the run ends the metric
\* rows written are exactly those of the input rows that precede the first
\* row violating a precondition, in the same order; a row's output row is
\* written before the next row is read.
C9_OutputIsAdmissiblePrefix ==
    /\ pc = "validate" => Len(out) = idx - 1
    /\ pc \in {"finished", "aborted"} =>
           /\ Len(out) = AdmissiblePrefix(0)
           /\ \A j \in DOMAIN out : out[j].params = rows[j]

\* C10: the x Stage 2 ends with respects the feasibility constraint: the
\* max_fee written is at most cuf.
C10_FinalXFeasible ==
    \A j \in DOMAIN out : RLeq(out[j].max_fee, Cuf(out[j].params))

====
